---- MODULE Spec2Model ----
(***************************************************************************)
(* A model of ac_controller.py: the ECHONET Lite frame encoder             *)
(* (create_frame), the UDP operations built on it (find_air_conditioner,   *)
(* turn_off, turn_on), the HTTP sensor query (get_sensor_info, number) and *)
(* the command-line program (__main__).                                    *)
(*                                                                         *)
(* Bytes are integers 0..255, byte strings and text are sequences (text is *)
(* a sequence of one-character strings), the properties dict is a sequence *)
(* of <<key, value>> pairs in insertion order with distinct keys, the info *)
(* dict is a function from key text to value.  A call that returns or      *)
(* raises leaves a record made by Return or Raise.                         *)
(***************************************************************************)
EXTENDS Integers, Sequences, FiniteSets, TLC

VARIABLES
    argv,       \* sys.argv of the program run (text arguments, argv[1] the script)
    mainpc,     \* position of __main__
    host,       \* __main__'s host
    info,       \* __main__'s info
    stdout,     \* what has been printed
    exitcode,   \* process exit status, -1 while running
    call,       \* the operation in progress and its arguments
    step,       \* position inside the operation in progress
    result,     \* what the operation returned or raised
    frame,      \* local f of the operation: the encoded frame
    frame2,     \* the encoding of call.reordered (create_frame called twice)
    sock,       \* the operation's socket: "none", "open" or "closed"
    bound,      \* the address the socket is bound to, <<>> when unbound
    inbox,      \* datagrams queued at the bound socket (their sender addresses)
    address,    \* local address of find_air_conditioner
    served,     \* the body the device's HTTP server answers with
    body,       \* text read from the HTTP response
    net         \* every network call made so far, in order

vars == <<argv, mainpc, host, info, stdout, exitcode, call, step, result,
          frame, frame2, sock, bound, inbox, address, served, body, net>>

(***************************************************************************)
(* Bounds of the model.                                                    *)
(***************************************************************************)
MaxValueLen == 1     \* length of the short property values tried
MaxBody == 5         \* length of the response bodies tried
MaxArgs == 2         \* number of command-line arguments tried
MaxInbox == 2        \* datagrams that may queue at the discovery socket

(***************************************************************************)
(* Enumerations and constants of the program.                              *)
(***************************************************************************)
SET_I == 96
SET_C == 97
GET == 98
INF_REQ == 99
SET_GET == 110
Service == {SET_I, SET_C, GET, INF_REQ, SET_GET}

STATUS == 128
MODE == 176
TEMPERATURE == 179
Property == {STATUS, MODE, TEMPERATURE}

ON == <<48>>
OFF == <<49>>

AUTOMATIC == <<65>>
COOLING == <<66>>
HEATING == <<67>>
DEHUMIDIFICATION == <<68>>
AIR_CIRCULATOR == <<69>>
OTHER_MODE == <<64>>
Mode == {AUTOMATIC, COOLING, HEATING, DEHUMIDIFICATION, AIR_CIRCULATOR, OTHER_MODE}

MULTICAST_ADDRESS == "224.0.23.0"
PORT == 3610

\* The largest value a bytearray element, or int.to_bytes(1, ...), can hold.
ByteMax == 255

(***************************************************************************)
(* Results of calls.                                                       *)
(***************************************************************************)
None == <<>>
Return(v) == [kind |-> "return", value |-> v, exc |-> "none"]
Raise(e) == [kind |-> "raise", value |-> None, exc |-> e]
NoResult == [kind |-> "none", value |-> None, exc |-> "none"]

(***************************************************************************)
(* create_frame.                                                           *)
(***************************************************************************)
\* bytearray.append: a value outside 0..255 raises ValueError.  f is the
\* Return of the bytes so far, or the Raise that already ended the call.
\* (FAppendWraps is the faulty variant that keeps the low eight bits.)
FAppendWraps(f, b) ==
    IF f.kind = "raise" THEN f ELSE Return(Append(f.value, b % (ByteMax + 1)))

FAppend(f, b) ==
    IF f.kind = "raise" THEN f
    ELSE IF b \in 0..ByteMax THEN Return(Append(f.value, b))
    ELSE Raise("ValueError")

\* bytearray.extend with a bytes value.
FExtend(f, v) ==
    IF f.kind = "raise" THEN f ELSE Return(f.value \o v)

\* bytearray.fromhex('1081' + '0000' + '05ff01' + '013001')
FrameHeader == <<16, 129, 0, 0, 5, 255, 1, 1, 48, 1>>

\* The loop "for k, v in properties.items()" over the items lo..hi, in
\* order: f is the frame so far, and an exception ends the loop.  (The
\* range is halved so that a mapping of hundreds of items is evaluated
\* without deep recursion; the items are still appended first to last.)
RECURSIVE AppendProperties(_, _, _, _)
AppendProperties(f, items, lo, hi) ==
    IF lo > hi THEN f
    ELSE IF lo = hi
    THEN FExtend(FAppend(FAppend(f, items[lo][1]), Len(items[lo][2])), items[lo][2])
    ELSE LET mid == (lo + hi) \div 2
             g == AppendProperties(f, items, lo, mid)
         IN IF g.kind = "raise" THEN g ELSE AppendProperties(g, items, mid + 1, hi)

\* Faulty variants of create_frame: one that appends the items last to
\* first, one that leaves out the OPC byte.
ReverseItems(items) == [i \in 1..Len(items) |-> items[Len(items) + 1 - i]]

create_frame_reversed(service, properties) ==
    AppendProperties(
        FAppend(FAppend(Return(FrameHeader), service), Len(properties)),
        ReverseItems(properties), 1, Len(properties))

create_frame_no_opc(service, properties) ==
    AppendProperties(FAppend(Return(FrameHeader), service), properties,
                     1, Len(properties))

create_frame(service, properties) ==
    AppendProperties(
        FAppend(FAppend(Return(FrameHeader), service), Len(properties)),
        properties, 1, Len(properties))

(***************************************************************************)
(* number and get_sensor_info's parsing.  Text is a sequence of characters *)
(* over Chars and the digits; outside this alphabet int() and float()      *)
(* accept more (white space, "_", exponents, inf, nan), which no body      *)
(* tried here contains.  A float is kept exactly, as num / 10^scale with   *)
(* no trailing zero in the fraction.                                       *)
(***************************************************************************)
Digits == {"0", "1", "2", "3", "4", "5", "6", "7", "8", "9"}

DigitValue(c) ==
    CASE c = "0" -> 0 [] c = "1" -> 1 [] c = "2" -> 2 [] c = "3" -> 3
      [] c = "4" -> 4 [] c = "5" -> 5 [] c = "6" -> 6 [] c = "7" -> 7
      [] c = "8" -> 8 [] c = "9" -> 9

IsDigits(s) == \A i \in 1..Len(s) : s[i] \in Digits

RECURSIVE DigitsValue(_)
DigitsValue(s) ==
    IF s = <<>> THEN 0
    ELSE 10 * DigitsValue(SubSeq(s, 1, Len(s) - 1)) + DigitValue(s[Len(s)])

HasSign(s) == s # <<>> /\ s[1] \in {"-", "+"}
Unsigned(s) == IF HasSign(s) THEN Tail(s) ELSE s
Sign(s) == IF s # <<>> /\ s[1] = "-" THEN -1 ELSE 1

\* str.find: the first index of character c in s, 0 when there is none.
RECURSIVE Find(_, _, _)
Find(s, c, i) ==
    IF i > Len(s) THEN 0 ELSE IF s[i] = c THEN i ELSE Find(s, c, i + 1)

IntValue(n) == [tag |-> "int", num |-> n, scale |-> 0, text |-> <<>>]
StrValue(s) == [tag |-> "str", num |-> 0, scale |-> 0, text |-> s]

RECURSIVE FloatValue(_, _)
FloatValue(n, k) ==
    IF k > 0 /\ n % 10 = 0 THEN FloatValue(n \div 10, k - 1)
    ELSE [tag |-> "float", num |-> n, scale |-> k, text |-> <<>>]

\* int(v) succeeds: an optional sign and one or more digits.
IsInt(v) == Unsigned(v) # <<>> /\ IsDigits(Unsigned(v))

\* float(v) succeeds: an optional sign, digits with at most one point,
\* and a digit on one side of the point at least.
IsFloat(v) ==
    LET u == Unsigned(v)
        p == Find(u, ".", 1)
        whole == IF p = 0 THEN u ELSE SubSeq(u, 1, p - 1)
        frac == IF p = 0 THEN <<>> ELSE SubSeq(u, p + 1, Len(u))
    IN IsDigits(whole) /\ IsDigits(frac) /\ whole \o frac # <<>>

ToFloat(v) ==
    LET u == Unsigned(v)
        p == Find(u, ".", 1)
        whole == IF p = 0 THEN u ELSE SubSeq(u, 1, p - 1)
        frac == IF p = 0 THEN <<>> ELSE SubSeq(u, p + 1, Len(u))
    IN FloatValue(Sign(v) * DigitsValue(whole \o frac), Len(frac))

number(v) ==
    IF IsInt(v) THEN IntValue(Sign(v) * DigitsValue(Unsigned(v)))
    ELSE IF IsFloat(v) THEN ToFloat(v)
    ELSE StrValue(v)

\* str.split(sep): the pieces of s between the separators, one at least.
RECURSIVE Split(_, _)
Split(s, sep) ==
    LET p == Find(s, sep, 1)
    IN IF p = 0 THEN <<s>>
       ELSE <<SubSeq(s, 1, p - 1)>> \o Split(SubSeq(s, p + 1, Len(s)), sep)

\* str.split(sep, 1): at most one split, at the first separator.
SplitOnce(s, sep) ==
    LET p == Find(s, sep, 1)
    IN IF p = 0 THEN <<s>>
       ELSE <<SubSeq(s, 1, p - 1), SubSeq(s, p + 1, Len(s))>>

\* The loop of get_sensor_info over the entries left: d is the Return of
\* the dict so far.  kv[1] of an entry without "=" raises IndexError.
RECURSIVE ParseEntries(_, _)
ParseEntries(d, entries) ==
    IF entries = <<>> THEN d
    ELSE LET kv == SplitOnce(Head(entries), "=")
         IN IF Len(kv) < 2 THEN Raise("IndexError")
            ELSE ParseEntries(
                    Return([k \in DOMAIN d.value \cup {kv[1]} |->
                              IF k = kv[1] THEN number(kv[2]) ELSE d.value[k]]),
                    Tail(entries))

EmptyDict == [k \in {} |-> 0]

\* What get_sensor_info makes of the response body it read.
ParseInfo(text) == ParseEntries(Return(EmptyDict), Split(text, ","))

(***************************************************************************)
(* The operations.  call holds the operation in progress and its           *)
(* arguments, step its position.                                           *)
(***************************************************************************)
MkCall(name, h, m, t) ==
    [name |-> name, host |-> h, mode |-> m, temperature |-> t,
     service |-> 0, properties |-> <<>>, reordered |-> <<>>]

NoCall == MkCall("none", "", <<>>, 0)

UdpOps == {"find_air_conditioner", "turn_off", "turn_on"}

\* One network call in the log: what was called, the payload, the peer
\* address and whether it succeeded.
NetCall(op, data, peer, ok) == [op |-> op, data |-> data, peer |-> peer, ok |-> ok]

\* int.to_bytes(1, byteorder='big'): OverflowError outside 0..255.
to_bytes(n) ==
    IF n \in 0..ByteMax THEN Return(<<n>>) ELSE Raise("OverflowError")

\* The dict p of turn_on.  (The faulty variant tests temperature > 0.)
turn_on_properties_positive(mode, temperature) ==
    LET p == << <<STATUS, ON>>, <<MODE, mode>> >>
        b == to_bytes(temperature)
    IN IF temperature > 0
       THEN IF b.kind = "raise" THEN b
            ELSE Return(Append(p, <<TEMPERATURE, b.value>>))
       ELSE Return(p)

turn_on_properties(mode, temperature) ==
    LET p == << <<STATUS, ON>>, <<MODE, mode>> >>
        b == to_bytes(temperature)
    IN IF temperature >= 0
       THEN IF b.kind = "raise" THEN b ELSE Return(Append(p, <<TEMPERATURE, b.value>>))
       ELSE Return(p)

\* The frame each operation builds before it opens its socket.
OpFrame(c) ==
    CASE c.name = "find_air_conditioner" ->
            create_frame(GET, << <<STATUS, <<>>>> >>)
      [] c.name = "turn_off" ->
            create_frame(SET_I, << <<STATUS, OFF>> >>)
      [] c.name = "turn_on" ->
            LET p == turn_on_properties(c.mode, c.temperature)
            IN IF p.kind = "raise" THEN p ELSE create_frame(SET_I, p.value)

\* The address the operation's sendto names.  (The faulty variant sends
\* every frame to the multicast group.)
SendPeerMulticast(c) == <<MULTICAST_ADDRESS, PORT>>

SendPeer(c) ==
    IF c.name = "find_air_conditioner" THEN <<MULTICAST_ADDRESS, PORT>>
    ELSE <<c.host, PORT>>

\* The socket after the with statement's __exit__, on the normal and on
\* the exceptional way out.  (The faulty variant closes on the normal way
\* only.)
WithExit(s) == "closed"
WithExitOnErrorLeaks(s) == s
WithExitOnError(s) == "closed"

MainUnchanged == UNCHANGED <<argv, mainpc, host, info, stdout, exitcode>>

\* f = create_frame(...), and in turn_on the dict p before it.
BuildFrame ==
    /\ call.name \in UdpOps /\ step = "frame"
    /\ frame' = OpFrame(call)
    /\ IF frame'.kind = "raise"
       THEN result' = frame' /\ step' = "done"
       ELSE result' = result /\ step' = "socket"
    /\ UNCHANGED <<call, frame2, sock, bound, inbox, address, served, body, net>>
    /\ MainUnchanged

\* socket.socket(AF_INET, SOCK_DGRAM) succeeds.
SocketOpen ==
    /\ call.name \in UdpOps /\ step = "socket"
    /\ sock' = "open"
    /\ step' = IF call.name = "find_air_conditioner" THEN "bind" ELSE "sendto"
    /\ UNCHANGED <<call, result, frame, frame2, bound, inbox, address, served, body, net>>
    /\ MainUnchanged

\* socket.socket raises: no socket exists.
SocketFail ==
    /\ call.name \in UdpOps /\ step = "socket"
    /\ result' = Raise("OSError")
    /\ step' = "done"
    /\ UNCHANGED <<call, frame, frame2, sock, bound, inbox, address, served, body, net>>
    /\ MainUnchanged

\* s.bind(('0.0.0.0', PORT))
Bind ==
    /\ call.name = "find_air_conditioner" /\ step = "bind"
    /\ bound' = <<"0.0.0.0", PORT>>
    /\ net' = Append(net, NetCall("bind", <<>>, <<"0.0.0.0", PORT>>, TRUE))
    /\ step' = "sendto"
    /\ UNCHANGED <<call, result, frame, frame2, sock, inbox, address, served, body>>
    /\ MainUnchanged

BindFail ==
    /\ call.name = "find_air_conditioner" /\ step = "bind"
    /\ net' = Append(net, NetCall("bind", <<>>, <<"0.0.0.0", PORT>>, FALSE))
    /\ sock' = WithExitOnError(sock)
    /\ result' = Raise("OSError")
    /\ step' = "done"
    /\ UNCHANGED <<call, frame, frame2, bound, inbox, address, served, body>>
    /\ MainUnchanged

\* s.sendto(f, ...)
SendTo ==
    /\ call.name \in UdpOps /\ step = "sendto"
    /\ net' = Append(net, NetCall("sendto", frame.value, SendPeer(call), TRUE))
    /\ step' = IF call.name = "find_air_conditioner" THEN "recvfrom" ELSE "exit"
    /\ UNCHANGED <<call, result, frame, frame2, sock, bound, inbox, address, served, body>>
    /\ MainUnchanged

SendToFail ==
    /\ call.name \in UdpOps /\ step = "sendto"
    /\ net' = Append(net, NetCall("sendto", frame.value, SendPeer(call), FALSE))
    /\ sock' = WithExitOnError(sock)
    /\ result' = Raise("OSError")
    /\ step' = "done"
    /\ UNCHANGED <<call, frame, frame2, bound, inbox, address, served, body>>
    /\ MainUnchanged

\* The network: a datagram from some node reaches the bound socket.
Hosts == {"192.168.1.50", "192.168.1.51"}

Deliver ==
    /\ sock = "open" /\ bound # <<>> /\ Len(inbox) < MaxInbox
    /\ \E a \in Hosts : inbox' = Append(inbox, a)
    /\ UNCHANGED <<call, step, result, frame, frame2, sock, bound, address, served, body, net>>
    /\ MainUnchanged

\* _, address = s.recvfrom(SOCKET_BUFSIZ): blocks until a datagram is queued.
RecvFrom ==
    /\ call.name = "find_air_conditioner" /\ step = "recvfrom"
    /\ inbox # <<>>
    /\ address' = <<Head(inbox), PORT>>
    /\ inbox' = Tail(inbox)
    /\ net' = Append(net, NetCall("recvfrom", <<>>, <<Head(inbox), PORT>>, TRUE))
    /\ step' = "exit"
    /\ UNCHANGED <<call, result, frame, frame2, sock, bound, served, body>>
    /\ MainUnchanged

RecvFromFail ==
    /\ call.name = "find_air_conditioner" /\ step = "recvfrom"
    /\ net' = Append(net, NetCall("recvfrom", <<>>, <<>>, FALSE))
    /\ sock' = WithExitOnError(sock)
    /\ result' = Raise("OSError")
    /\ step' = "done"
    /\ UNCHANGED <<call, frame, frame2, bound, inbox, address, served, body>>
    /\ MainUnchanged

\* Faulty variant of Leave: find_air_conditioner returns the address it
\* sent to, not the address it received from.
LeaveReturnsGroup ==
    /\ call.name \in UdpOps /\ step = "exit"
    /\ sock' = WithExit(sock)
    /\ result' = IF call.name = "find_air_conditioner" THEN Return(MULTICAST_ADDRESS)
                 ELSE Return(None)
    /\ step' = "done"
    /\ UNCHANGED <<call, frame, frame2, bound, inbox, address, served, body, net>>
    /\ MainUnchanged

\* The end of the with block, then the return.
Leave ==
    /\ call.name \in UdpOps /\ step = "exit"
    /\ sock' = WithExit(sock)
    /\ result' = IF call.name = "find_air_conditioner" THEN Return(address[1])
                 ELSE Return(None)
    /\ step' = "done"
    /\ UNCHANGED <<call, frame, frame2, bound, inbox, address, served, body, net>>
    /\ MainUnchanged

\* urllib.request.urlopen('http://' + host + '/aircon/get_sensor_info') and
\* f.read().decode('utf-8')
UrlOpen ==
    /\ call.name = "get_sensor_info" /\ step = "urlopen"
    /\ net' = Append(net, NetCall("http_get", <<"/aircon/get_sensor_info">>,
                                  <<call.host, 80>>, TRUE))
    /\ body' = served
    /\ step' = "parse"
    /\ UNCHANGED <<call, result, frame, frame2, sock, bound, inbox, address, served>>
    /\ MainUnchanged

UrlOpenFail ==
    /\ call.name = "get_sensor_info" /\ step = "urlopen"
    /\ net' = Append(net, NetCall("http_get", <<"/aircon/get_sensor_info">>,
                                  <<call.host, 80>>, FALSE))
    /\ result' = Raise("URLError")
    /\ step' = "done"
    /\ UNCHANGED <<call, frame, frame2, sock, bound, inbox, address, served, body>>
    /\ MainUnchanged

\* The loop over the entries, and return info.
ParseBody ==
    /\ call.name = "get_sensor_info" /\ step = "parse"
    /\ result' = ParseInfo(body)
    /\ step' = "done"
    /\ UNCHANGED <<call, frame, frame2, sock, bound, inbox, address, served, body, net>>
    /\ MainUnchanged

\* create_frame called on a mapping and on a reordering of it.
CallCreateFrame ==
    /\ call.name = "create_frame" /\ step = "frame"
    /\ frame' = create_frame(call.service, call.properties)
    /\ frame2' = create_frame(call.service, call.reordered)
    /\ result' = frame'
    /\ step' = "done"
    /\ UNCHANGED <<call, sock, bound, inbox, address, served, body, net>>
    /\ MainUnchanged

(***************************************************************************)
(* __main__.                                                               *)
(***************************************************************************)
RECURSIVE Pow10(_)
Pow10(k) == IF k = 0 THEN 1 ELSE 10 * Pow10(k - 1)

\* info[key] <= n and info[key] >= n: "True", "False", or the exception
\* raised (a missing key, a text value compared with an int).
CompareLE(d, key, n) ==
    IF key \notin DOMAIN d THEN "KeyError"
    ELSE IF d[key].tag = "str" THEN "TypeError"
    ELSE IF d[key].num <= n * Pow10(d[key].scale) THEN "True" ELSE "False"

CompareGE(d, key, n) ==
    IF key \notin DOMAIN d THEN "KeyError"
    ELSE IF d[key].tag = "str" THEN "TypeError"
    ELSE IF d[key].num >= n * Pow10(d[key].scale) THEN "True" ELSE "False"

\* a and b: b is evaluated only when a is true.
AndThen(a, b) == IF a = "True" THEN b ELSE a

htemp == <<"h", "t", "e", "m", "p">>
hhum == <<"h", "h", "u", "m">>
otemp == <<"o", "t", "e", "m", "p">>

\* The if/elif chain of the 'on' branch: the turn_on call to make, "none"
\* when no branch is taken, or the exception a condition raises.
OnDecision(d) ==
    LET c1 == CompareLE(d, htemp, 20)
        c2 == AndThen(CompareGE(d, htemp, 28), CompareGE(d, otemp, 25))
        c3 == AndThen(CompareGE(d, hhum, 70), CompareGE(d, otemp, 25))
    IN IF c1 = "True" THEN [kind |-> "call", mode |-> HEATING, temperature |-> 22]
       ELSE IF c1 # "False" THEN [kind |-> c1, mode |-> <<>>, temperature |-> 0]
       ELSE IF c2 = "True" THEN [kind |-> "call", mode |-> COOLING, temperature |-> 26]
       ELSE IF c2 # "False" THEN [kind |-> c2, mode |-> <<>>, temperature |-> 0]
       ELSE IF c3 = "True"
            THEN [kind |-> "call", mode |-> DEHUMIDIFICATION, temperature |-> -1]
       ELSE IF c3 # "False" THEN [kind |-> c3, mode |-> <<>>, temperature |-> 0]
       ELSE [kind |-> "none", mode |-> <<>>, temperature |-> 0]

Printed(what, value) == [what |-> what, value |-> value]

\* A call of an operation from __main__: the operation starts with fresh
\* locals and a socket of its own.
StartCall(c, first) ==
    /\ call' = c
    /\ step' = first
    /\ result' = NoResult
    /\ frame' = NoResult
    /\ sock' = "none"
    /\ bound' = <<>>
    /\ inbox' = <<>>
    /\ address' = <<>>
    /\ body' = <<>>

\* The process ends: sys.exit, the end of the script or an uncaught exception.
Exit(code) ==
    /\ exitcode' = code
    /\ mainpc' = "exited"
    /\ UNCHANGED <<call, step, result, frame, sock, bound, inbox, address, body>>

\* if len(sys.argv) != 2: print_usage_and_exit(); host = find_air_conditioner()
MainStart ==
    /\ mainpc = "start"
    /\ IF Len(argv) # 2
       THEN /\ stdout' = Append(stdout, Printed("usage", <<>>))
            /\ Exit(1)
       ELSE /\ StartCall(MkCall("find_air_conditioner", "", <<>>, 0), "frame")
            /\ mainpc' = "find"
            /\ UNCHANGED <<stdout, exitcode>>
    /\ UNCHANGED <<argv, host, info, frame2, served, net>>

\* Faulty variant of MainAfterFind: the operations are given a fixed
\* address, not the one find_air_conditioner returned.
MainAfterFindFixedHost ==
    /\ mainpc = "find" /\ step = "done"
    /\ IF result.kind = "raise"
       THEN Exit(1) /\ host' = host
       ELSE /\ host' = "192.168.1.1"
            /\ IF argv[2] = "off"
               THEN StartCall(MkCall("turn_off", host', <<>>, 0), "frame")
               ELSE StartCall(MkCall("get_sensor_info", host', <<>>, 0), "urlopen")
            /\ mainpc' = IF argv[2] = "off" THEN "off" ELSE "info"
            /\ exitcode' = exitcode
    /\ UNCHANGED <<argv, info, stdout, frame2, served, net>>

\* host is bound; if sys.argv[1] == 'off': turn_off(host), else
\* info = get_sensor_info(host)
MainAfterFind ==
    /\ mainpc = "find" /\ step = "done"
    /\ IF result.kind = "raise"
       THEN Exit(1) /\ host' = host
       ELSE /\ host' = result.value
            /\ IF argv[2] = "off"
               THEN StartCall(MkCall("turn_off", host', <<>>, 0), "frame")
               ELSE StartCall(MkCall("get_sensor_info", host', <<>>, 0), "urlopen")
            /\ mainpc' = IF argv[2] = "off" THEN "off" ELSE "info"
            /\ exitcode' = exitcode
    /\ UNCHANGED <<argv, info, stdout, frame2, served, net>>

\* sys.exit() after turn_off(host)
MainAfterOff ==
    /\ mainpc = "off" /\ step = "done"
    /\ Exit(IF result.kind = "raise" THEN 1 ELSE 0)
    /\ UNCHANGED <<argv, host, info, stdout, frame2, served, net>>

\* info is bound; the 'on' branch, or print(info)
MainAfterInfo ==
    /\ mainpc = "info" /\ step = "done"
    /\ IF result.kind = "raise"
       THEN Exit(1) /\ UNCHANGED <<info, stdout>>
       ELSE /\ info' = result.value
            /\ IF argv[2] = "on"
               THEN LET d == OnDecision(info')
                    IN CASE d.kind = "call" ->
                              /\ StartCall(MkCall("turn_on", host, d.mode,
                                                  d.temperature), "frame")
                              /\ mainpc' = "on"
                              /\ UNCHANGED <<stdout, exitcode>>
                         [] d.kind = "none" -> Exit(0) /\ stdout' = stdout
                         [] OTHER -> Exit(1) /\ stdout' = stdout
               ELSE /\ stdout' = Append(stdout, Printed("info", info'))
                    /\ Exit(0)
    /\ UNCHANGED <<argv, host, frame2, served, net>>

\* sys.exit() after turn_on(...)
MainAfterOn ==
    /\ mainpc = "on" /\ step = "done"
    /\ Exit(IF result.kind = "raise" THEN 1 ELSE 0)
    /\ UNCHANGED <<argv, host, info, stdout, frame2, served, net>>

(***************************************************************************)
(* The inputs tried.                                                       *)
(***************************************************************************)
Arguments == {"off", "on", "info", "foo"}

ArgvInputs ==
    {<<"ac_controller.py">> \o a : a \in UNION {[1..n -> Arguments] : n \in 0..MaxArgs}}

Field(key, text) == key \o <<"=">> \o text

HtempTexts == {<<"1", "9">>, <<"2", "0", ".", "0">>, <<"2", "0", ".", "5">>,
               <<"2", "8", ".", "0">>, <<"-">>}
HhumTexts == {<<"2", "5">>, <<"7", "0">>, <<"-">>}
OtempTexts == {<<"6", ".", "0">>, <<"2", "5", ".", "0">>, <<"-">>}

\* Bodies like the docstring's, one with an error answer only, an empty one.
MainBodies ==
    { Field(<<"r", "e", "t">>, <<"O", "K">>) \o <<",">> \o Field(htemp, h)
        \o <<",">> \o Field(hhum, u) \o <<",">> \o Field(otemp, o) :
        h \in HtempTexts, u \in HhumTexts, o \in OtempTexts }
    \cup {<<>>, Field(<<"r", "e", "t">>, <<"N", "G">>)}

Chars == {"1", "2", ".", "-", "=", ",", "a"}

AllBodies == UNION {[1..n -> Chars] : n \in 0..MaxBody}

SampleBytes == {48, 65}

ShortValues == UNION {[1..n -> SampleBytes] : n \in 0..MaxValueLen}

\* n zero bytes.
LongValue(n) == [i \in 1..n |-> 0]

\* A mapping of n entries with the keys 0, 1, ... and empty values.
LongMap(n) == [i \in 1..n |-> <<i - 1, <<>>>>]

Injective(f) == \A i, j \in DOMAIN f : f[i] = f[j] => i = j

KeyOrders == {ks \in UNION {[1..n -> Property] : n \in 0..3} : Injective(ks)}

PropMaps ==
    UNION {{[i \in 1..Len(ks) |-> <<ks[i], vs[i]>>] :
              vs \in [1..Len(ks) -> ShortValues]} : ks \in KeyOrders}
    \cup {<< <<STATUS, LongValue(n)>> >> : n \in {ByteMax, ByteMax + 1}}
    \cup {<< <<MODE, <<65>>>>, <<STATUS, LongValue(ByteMax + 1)>> >>}
    \cup {LongMap(n) : n \in {ByteMax, ByteMax + 1}}

\* The same entries in another order (every order of a short mapping; of a
\* long one, itself and the one with its first and last entries exchanged).
Reorderings(p) ==
    IF Len(p) <= 3
    THEN {[i \in 1..Len(p) |-> p[f[i]]] :
            f \in {g \in [1..Len(p) -> 1..Len(p)] : Injective(g)}}
    ELSE {p, [i \in 1..Len(p) |-> IF i = 1 THEN p[Len(p)]
                                   ELSE IF i = Len(p) THEN p[1] ELSE p[i]]}

Temperatures == {-128, -1, 0, 22, 26, 255, 256, 1000}

(***************************************************************************)
(* The program run: any command line, any answer of the device.            *)
(***************************************************************************)
OpIdle ==
    /\ result = NoResult /\ frame = NoResult /\ frame2 = NoResult
    /\ sock = "none" /\ bound = <<>> /\ inbox = <<>> /\ address = <<>>
    /\ body = <<>> /\ net = <<>>

MainIdle ==
    /\ argv = <<>> /\ mainpc = "none" /\ host = "" /\ info = EmptyDict
    /\ stdout = <<>> /\ exitcode = -1

Init ==
    /\ argv \in ArgvInputs
    /\ mainpc = "start" /\ host = "" /\ info = EmptyDict
    /\ stdout = <<>> /\ exitcode = -1
    /\ call = NoCall /\ step = "none"
    /\ served \in MainBodies
    /\ OpIdle

Next ==
    \/ MainStart
    \/ MainAfterFind
    \/ MainAfterOff
    \/ MainAfterInfo
    \/ MainAfterOn
    \/ BuildFrame
    \/ SocketOpen
    \/ SocketFail
    \/ Bind
    \/ BindFail
    \/ SendTo
    \/ SendToFail
    \/ Deliver
    \/ RecvFrom
    \/ RecvFromFail
    \/ Leave
    \/ UrlOpen
    \/ UrlOpenFail
    \/ ParseBody

Spec == Init /\ [][Next]_vars

(***************************************************************************)
(* One call of create_frame, find_air_conditioner, turn_off or turn_on,    *)
(* with any arguments.                                                     *)
(***************************************************************************)
InitCall ==
    /\ MainIdle
    /\ \/ \E s \in Service, p \in PropMaps :
            \E r \in Reorderings(p) :
                call = [MkCall("create_frame", "", <<>>, 0) EXCEPT
                          !.service = s, !.properties = p, !.reordered = r]
       \/ call = MkCall("find_air_conditioner", "", <<>>, 0)
       \/ \E h \in Hosts : call = MkCall("turn_off", h, <<>>, 0)
       \/ \E h \in Hosts, m \in Mode, t \in Temperatures :
            call = MkCall("turn_on", h, m, t)
    /\ step = "frame"
    /\ served = <<>>
    /\ OpIdle

NextCall ==
    \/ CallCreateFrame
    \/ BuildFrame
    \/ SocketOpen
    \/ SocketFail
    \/ Bind
    \/ BindFail
    \/ SendTo
    \/ SendToFail
    \/ Deliver
    \/ RecvFrom
    \/ RecvFromFail
    \/ Leave

SpecCall == InitCall /\ [][NextCall]_vars

(***************************************************************************)
(* One call of get_sensor_info, the device answering with any body.        *)
(***************************************************************************)
InitSensor ==
    /\ MainIdle
    /\ \E h \in Hosts : call = MkCall("get_sensor_info", h, <<>>, 0)
    /\ step = "urlopen"
    /\ served \in AllBodies
    /\ OpIdle

NextSensor ==
    \/ UrlOpen
    \/ UrlOpenFail
    \/ ParseBody

SpecSensor == InitSensor /\ [][NextSensor]_vars

(***************************************************************************)
(* Properties.                                                             *)
(***************************************************************************)
\* The number of value bytes in the first n items of a mapping.
ValueBytes(items, n) ==
    Cardinality(UNION {{i} \X (1..Len(items[i][2])) : i \in 1..n})

CreateFrameDone == call.name = "create_frame" /\ step = "done"

WithinLimits(items) ==
    /\ Len(items) <= 255
    /\ \A i \in 1..Len(items) : Len(items[i][2]) <= 255

\* C1: for every service and every mapping of at most 255 entries with
\* values of at most 255 bytes, create_frame returns 12 + 2*n + (sum of the
\* value lengths) bytes; bytes 0..9 are 10 81 00 00 05 FF 01 01 30 01, byte
\* 10 is the service code and byte 11 the number of properties.
C1_FrameLayout ==
    (CreateFrameDone /\ WithinLimits(call.properties)) =>
        /\ frame.kind = "return"
        /\ Len(frame.value) = 12 + 2 * Len(call.properties)
                                 + ValueBytes(call.properties, Len(call.properties))
        /\ SubSeq(frame.value, 1, 10) = <<16, 129, 0, 0, 5, 255, 1, 1, 48, 1>>
        /\ frame.value[11] = call.service
        /\ frame.value[12] = Len(call.properties)

C1_Witness ==
    /\ CreateFrameDone
    /\ Len(call.properties) = 3
    /\ ValueBytes(call.properties, 3) > 0
    /\ frame.kind = "return"

\* Where item i of a mapping starts in its frame (the index before it).
EntryOffset(items, i) == 12 + 2 * (i - 1) + ValueBytes(items, i - 1)

\* C2: the property entries (code, value length, value bytes) follow byte 11
\* in the iteration order of the mapping, each length byte the length of its
\* value; the same entries in another order encode to other bytes.
C2_EntriesInOrder ==
    (CreateFrameDone /\ frame.kind = "return") =>
        /\ \A i \in 1..Len(call.properties) :
              LET off == EntryOffset(call.properties, i)
                  k == call.properties[i][1]
                  v == call.properties[i][2]
              IN /\ frame.value[off + 1] = k
                 /\ frame.value[off + 2] = Len(v)
                 /\ SubSeq(frame.value, off + 3, off + 2 + Len(v)) = v
        /\ (frame2.kind = "return" /\ call.reordered # call.properties)
              => frame2.value # frame.value

C2_Witness ==
    /\ CreateFrameDone
    /\ Len(call.properties) = 3
    /\ call.reordered # call.properties
    /\ frame.kind = "return" /\ frame2.kind = "return"

\* The bytes turn_on is to send for a mode and a temperature.
TurnOnBytes(m, t) ==
    <<16, 129, 0, 0, 5, 255, 1, 1, 48, 1, 96>>
      \o (IF t >= 0 THEN <<3>> ELSE <<2>>)
      \o <<128, 1, 48>> \o <<176, 1>> \o m
      \o (IF t >= 0 THEN <<179, 1, t>> ELSE <<>>)

\* C3: turn_on sends a SET-immediate frame with STATUS=ON, then MODE=mode,
\* then, if and only if temperature >= 0, one TEMPERATURE entry whose value
\* is the temperature as one unsigned byte; a negative temperature gives two
\* entries and no TEMPERATURE entry.
C3_TurnOnFrame ==
    call.name = "turn_on" =>
        /\ \A i \in 1..Len(net) :
              net[i].op = "sendto" =>
                  net[i].data = TurnOnBytes(call.mode, call.temperature)
        /\ (step = "done" /\ result.kind = "return") =>
              \E i \in 1..Len(net) : net[i].op = "sendto" /\ net[i].ok

C3_Witness ==
    /\ call.name = "turn_on" /\ call.temperature = 22
    /\ step = "done" /\ result.kind = "return"
    /\ Len(net) = 1 /\ Len(net[1].data) = 21 /\ net[1].data[21] = 22

\* C5: a value longer than 255 bytes, a mapping of more than 255 entries or
\* a turn_on temperature above 255 fails with a range error: no frame with a
\* wrapped length, count or temperature byte is produced, and turn_on sends
\* no datagram.
C5_RangeErrors ==
    /\ (CreateFrameDone /\ ~WithinLimits(call.properties)) =>
          (frame.kind = "raise" /\ frame.exc = "ValueError")
    /\ (call.name = "turn_on" /\ call.temperature > 255) =>
          /\ frame.kind # "return"
          /\ net = <<>>
          /\ step = "done" => (result.kind = "raise" /\ result.exc = "OverflowError")

C5_Witness ==
    /\ CreateFrameDone
    /\ Len(call.properties) = 256
    /\ frame.kind = "raise"

\* C6: find_air_conditioner binds to 0.0.0.0:3610, then sends one datagram
\* (GET, STATUS, empty value) to 224.0.23.0:3610, then receives once; it
\* returns the sender's address of the datagram received, and does not
\* return without one.
C6_Discovery ==
    call.name = "find_air_conditioner" =>
        /\ \A i \in 1..Len(net) :
              /\ net[i].op = "bind" =>
                    i = 1 /\ net[i].peer = <<"0.0.0.0", 3610>>
              /\ net[i].op = "sendto" =>
                    /\ i = 2 /\ net[1].op = "bind" /\ net[1].ok
                    /\ net[i].peer = <<"224.0.23.0", 3610>>
                    /\ net[i].data = <<16, 129, 0, 0, 5, 255, 1, 1, 48, 1, 98, 1, 128, 0>>
              /\ net[i].op = "recvfrom" =>
                    i = 3 /\ net[2].op = "sendto" /\ net[2].ok
        /\ (step = "done" /\ result.kind = "return") =>
              /\ Len(net) = 3
              /\ net[3].op = "recvfrom" /\ net[3].ok
              /\ result.value = net[3].peer[1]
              /\ result.value \in Hosts

C6_Witness ==
    /\ call.name = "find_air_conditioner"
    /\ step = "done" /\ result.kind = "return"
    /\ result.value = "192.168.1.50"

\* C7: the socket an operation opened is closed when the operation has
\* returned or raised, on every way out.
C7_SocketClosed ==
    (call.name \in UdpOps /\ step = "done") => sock # "open"

C7_Witness ==
    /\ call.name = "find_air_conditioner"
    /\ step = "done" /\ result.kind = "raise"
    /\ Len(net) = 3 /\ ~net[3].ok
    /\ sock = "closed"

\* C9: a successful turn_off or turn_on sends exactly one datagram, to the
\* given host on port 3610, with service code 0x60, and receives nothing;
\* turn_off's carries the one property STATUS=OFF.
C9_OneDatagram ==
    call.name \in {"turn_off", "turn_on"} =>
        /\ \A i \in 1..Len(net) : net[i].op = "sendto"
        /\ (step = "done" /\ result.kind = "return") =>
              /\ Len(net) = 1
              /\ net[1].ok
              /\ net[1].peer = <<call.host, 3610>>
              /\ net[1].data[11] = 96
              /\ call.name = "turn_off" =>
                    net[1].data = <<16, 129, 0, 0, 5, 255, 1, 1, 48, 1, 96, 1, 128, 1, 49>>

C9_Witness ==
    /\ call.name = "turn_off"
    /\ step = "done" /\ result.kind = "return"
    /\ Len(net) = 1

\* The control datagrams of a run: the sendto calls whose frame has the
\* SET-immediate service code.
ControlSends == {i \in 1..Len(net) : net[i].op = "sendto" /\ net[i].data[11] = 96}

\* C10: a run sends at most one control datagram, only after
\* find_air_conditioner has returned, and to the address it returned.
C10_OneControlDatagram ==
    /\ Cardinality(ControlSends) <= 1
    /\ \A i \in ControlSends :
          /\ i > 3
          /\ net[3].op = "recvfrom" /\ net[3].ok
          /\ net[i].peer = <<net[3].peer[1], 3610>>
          /\ host = net[3].peer[1]

C10_Witness ==
    /\ Len(argv) = 2 /\ argv[2] = "on"
    /\ mainpc = "exited" /\ exitcode = 0
    /\ ControlSends # {}

\* C4: a run with no argument, with two or more, or with one argument
\* outside {off, on, info} makes no network call, prints the usage message
\* and ends with a non-zero status.
BadInvocation == Len(argv) # 2 \/ argv[2] \notin {"off", "on", "info"}

C4_UsageOnBadInvocation ==
    BadInvocation =>
        /\ net = <<>>
        /\ mainpc = "exited" =>
              /\ exitcode # 0
              /\ \E i \in 1..Len(stdout) : stdout[i].what = "usage"

\* C8: for every body, get_sensor_info returns a mapping with one key per
\* entry key (the text before the entry's first "="), the value being the
\* text after it, as an integer if it parses as one, else as a float if it
\* parses as one, else unchanged.
EntryKey(e) == IF Find(e, "=", 1) = 0 THEN e ELSE SubSeq(e, 1, Find(e, "=", 1) - 1)
EntryText(e) == IF Find(e, "=", 1) = 0 THEN <<>> ELSE SubSeq(e, Find(e, "=", 1) + 1, Len(e))

C8_SensorMapping ==
    (call.name = "get_sensor_info" /\ step = "done" /\ net[1].ok) =>
        LET es == Split(body, ",")
        IN /\ result.kind = "return"
           /\ DOMAIN result.value = {EntryKey(es[i]) : i \in 1..Len(es)}
           /\ \A i \in 1..Len(es) :
                 (\A j \in (i + 1)..Len(es) : EntryKey(es[j]) # EntryKey(es[i])) =>
                     LET t == EntryText(es[i])
                         x == result.value[EntryKey(es[i])]
                     IN IF IsInt(t) THEN x.tag = "int"
                        ELSE IF IsFloat(t) THEN x.tag = "float"
                        ELSE x.tag = "str" /\ x.text = t

====
